---- MODULE Spec2Model ----
(***************************************************************************)
(* Suggestion ingestion and graph synchronisation of CodeForge/FlowForge:  *)
(* processSuggestions, autoCreateNode and addSuggestionToNode of           *)
(* src/lib/autoCreateNode.ts, run against the nodes and edges tables of    *)
(* the graph store.  Every await on a store call is one step of a process. *)
(***************************************************************************)
EXTENDS Integers, Sequences, FiniteSets, TLC

\* ------------------------------------------------------------------ bounds
MaxItems == 2      \* longest item list of a suggestion group
MaxRuns == 2       \* processSuggestions invocations in one behaviour
MaxFaults == 1     \* store calls that fail for a reason outside the model
MaxLines == 7      \* longest assistant text, in lines
MaxOther == 4      \* lines of it that are not numbered option lines
MaxClicks == 2     \* handleCreateNode calls in one behaviour
MaxCount == 5      \* most children the root is found to have when one is placed
MaxPlaced == 2     \* nodes placed around one root

\* --------------------------------------------------------------- constants
RootId == 1
NoNode == 0

SuggestionTypes == {"features", "tech_stack", "database", "user_flows"}
TypeTags == SuggestionTypes \cup {"bogus"}

EmptyMeta == [k \in {} |-> ""]

\* SuggestionItem values the text generator may emit (title, description,
\* optional metadata; an absent metadata is read as {} at every use).
Items ==
  { [title |-> "A", description |-> "d1", metadata |-> EmptyMeta],
    [title |-> "B", description |-> "d2",
     metadata |-> ("id" :> 5) @@ ("notes" :> "n")] }

RECURSIVE SeqsUpTo(_, _)
SeqsUpTo(S, n) ==
  IF n = 0 THEN {<<>>}
  ELSE LET shorter == SeqsUpTo(S, n - 1)
       IN shorter \cup {Append(s, x) : s \in {t \in shorter : Len(t) = n - 1}, x \in S}

\* A SuggestionGroup as it arrives at run time: the tag is whatever the JSON
\* carried, and the items array may be missing altogether.
Groups ==
  [type : TypeTags, items : SeqsUpTo(Items, MaxItems), hasItems : {TRUE}]
  \cup [type : TypeTags, items : {<<>>}, hasItems : {FALSE}]

NoGroup == [type |-> "none", items |-> <<>>, hasItems |-> TRUE]

\* ------------------------------------------------------- category mappings
\* categoryMap falling back to Database for a tag it does not know
categoryMap_fallback(type) ==
  CASE type = "features" -> "Features"
    [] type = "tech_stack" -> "Tech Stack"
    [] type = "user_flows" -> "User Flows"
    [] OTHER -> "Database"

\* processSuggestions: suggestion type -> display name ("" when unmapped)
categoryMap(type) ==
  CASE type = "features" -> "Features"
    [] type = "tech_stack" -> "Tech Stack"
    [] type = "database" -> "Database"
    [] type = "user_flows" -> "User Flows"
    [] OTHER -> ""

\* autoCreateNode: display name -> node_categories.name
dbCategoryName(categoryName) ==
  CASE categoryName = "Features" -> "feature"
    [] categoryName = "Tech Stack" -> "tech_stack"
    [] categoryName = "Database" -> "database"
    [] categoryName = "User Flows" -> "user_flows"

\* checkSingletonNodeExists / checkMultiInstanceNodeExists map with a ternary
singletonDbName(categoryName) ==
  IF categoryName = "Features" THEN "feature" ELSE "tech_stack"

multiDbName(categoryName) ==
  IF categoryName = "Database" THEN "database" ELSE "user_flows"

IsSingleton(categoryName) ==
  categoryName = "Features" \/ categoryName = "Tech Stack"

\* rootSourceHandleMap with the Database and User Flows handles exchanged
rootSourceHandleMap_swapped(categoryName) ==
  CASE categoryName = "Features" -> "right"
    [] categoryName = "Tech Stack" -> "bottom"
    [] categoryName = "Database" -> "top"
    [] categoryName = "User Flows" -> "left"

rootSourceHandleMap(categoryName) ==
  CASE categoryName = "Features" -> "right"
    [] categoryName = "Tech Stack" -> "bottom"
    [] categoryName = "Database" -> "left"
    [] categoryName = "User Flows" -> "top"

childTargetHandleMap(categoryName) ==
  CASE categoryName = "Features" -> "left"
    [] categoryName = "Tech Stack" -> "top"
    [] categoryName = "Database" -> "right"
    [] categoryName = "User Flows" -> "bottom"

\* ------------------------------------------------------------------ layout
\* cos and sin of a multiple of 90 degrees
Cos90(angle) == CASE angle = 0 -> 1 [] angle = 180 -> -1 [] OTHER -> 0
Sin90(angle) == CASE angle = 90 -> 1 [] angle = 270 -> -1 [] OTHER -> 0

\* calculateNodePosition with the one radius nodeWidth + gap on both axes
calculateNodePosition_circular(rootPosition, existingNodesCount) ==
  LET gap == 200
      nodeWidth == 350
      angle == (existingNodesCount * 90) % 360
  IN [x |-> rootPosition.x + Cos90(angle) * (nodeWidth + gap),
      y |-> rootPosition.y + Sin90(angle) * (nodeWidth + gap)]

calculateNodePosition(rootPosition, existingNodesCount) ==
  LET gap == 200
      nodeHeight == 150
      nodeWidth == 350
      angle == (existingNodesCount * 90) % 360
  IN [x |-> rootPosition.x + Cos90(angle) * (nodeWidth + gap),
      y |-> rootPosition.y + Sin90(angle) * (nodeHeight + gap)]

\* --------------------------------------------------------- Protocol Parser
\* The assistant text is a sequence of lines, joined by "\n".  A line is one
\* of: blank; prose; the line "OPTIONS:"; the line "SUGGESTIONS:"; a numbered
\* line "N. text"; a numbered line with nothing after the number; a JSON
\* object written on one line; a "{...}" span that is not JSON.  `n` tells
\* the non-blank lines of one text apart: every such line has its own text.
LineKinds ==
  {"blank", "prose", "options", "suggestions", "numbered", "numberedEmpty",
   "json", "badjson"}

Line(kind, n) == [kind |-> kind, n |-> IF kind = "blank" THEN 0 ELSE n]

Blank == Line("blank", 0)

IsBlank(l) == l.kind = "blank"

\* line.match(/^\d+\./)
IsNumberedLine(l) == l.kind \in {"numbered", "numberedEmpty"}

\* line.replace(/^\d+\.\s*/, '').trim(): the text of the line, 0 for ''
OptionText(l) == IF l.kind = "numbered" THEN l.n ELSE 0

\* a line that opens with "{" and closes with "}"
IsBraceLine(l) == l.kind \in {"json", "badjson"}

\* what JSON.parse makes of the one-line JSON object
JsonGroup ==
  [type |-> "features",
   items |-> <<[title |-> "A", description |-> "d1", metadata |-> EmptyMeta]>>,
   hasItems |-> TRUE]

Undefined(v) == [is |-> "undefined", v |-> v]
Null(v) == [is |-> "null", v |-> v]
Value(v) == [is |-> "value", v |-> v]

Min(S) == CHOOSE m \in S : \A k \in S : m <= k
Max(S) == CHOOSE m \in S : \A k \in S : k <= m

SubLines(ls, from, to) == [i \in 1..(to - from + 1) |-> ls[from + i - 1]]

\* the first line at or after i that is not blank, Len + 1 when there is none
NextNonBlank(ls, i) ==
  Min({j \in i..Len(ls) : ~IsBlank(ls[j])} \cup {Len(ls) + 1})

\* /OPTIONS:\s*\n/ : the first marker that a newline follows
OptionsMarker(ls) ==
  Min({i \in 1..(Len(ls) - 1) : ls[i].kind = "options"} \cup {Len(ls) + 1})

\* ([\s\S]*?)(?:\n\n|SUGGESTIONS:|$) from line t on: the last line of the
\* lazy capture, which ends before the first "\n\n", before the first
\* SUGGESTIONS: marker, or with the text
RECURSIVE CaptureEnd(_, _)
CaptureEnd(ls, t) ==
  IF t > Len(ls) THEN Len(ls)
  ELSE IF ls[t].kind = "suggestions" THEN t - 1
  ELSE IF t + 1 < Len(ls) /\ IsBlank(ls[t + 1]) THEN t
  ELSE CaptureEnd(ls, t + 1)

\* optionsMatch[1].split('\n'): \s*\n has swallowed the blank lines after the
\* marker, so the capture starts with the first line that is not blank
OptionsCapture(ls) ==
  LET i == OptionsMarker(ls)
      j == NextNonBlank(ls, i + 1)
  IN IF i > Len(ls) THEN <<>>
     ELSE SubLines(ls, j, CaptureEnd(ls, j))

IsOptionLine(l) == IsNumberedLine(l)
NonEmptyText(t) == t # 0

\* .filter(numbered).map(strip).filter(option => option.length > 0)
OptionTexts(ls) ==
  LET numbered == SelectSeq(OptionsCapture(ls), IsOptionLine)
      texts == [i \in 1..Len(numbered) |-> OptionText(numbered[i])]
  IN SelectSeq(texts, NonEmptyText)

\* }\s*(?:\n\n|$) after the brace line t: the text ends, or only blank lines
\* follow, or a blank line and then more text
BraceTail(ls, t) ==
  \/ t = Len(ls)
  \/ \A u \in (t + 1)..Len(ls) : IsBlank(ls[u])
  \/ t + 1 < Len(ls) /\ IsBlank(ls[t + 1])

\* {[\s\S]*?}\s*(?:\n\n|$) opening at line t: the line of the closing brace,
\* Len + 1 when no "}" is followed as required
BraceClose(ls, t) ==
  Min({u \in t..Len(ls) : IsBraceLine(ls[u]) /\ BraceTail(ls, u)}
        \cup {Len(ls) + 1})

\* /SUGGESTIONS:\s*\n{.../ matches at marker s
SuggestionsAt(ls, s) ==
  LET t == NextNonBlank(ls, s + 1) IN
  /\ s < Len(ls) /\ ls[s].kind = "suggestions"
  /\ t <= Len(ls) /\ IsBraceLine(ls[t])
  /\ BraceClose(ls, t) <= Len(ls)

\* the first marker the expression matches at, Len + 1 when there is none
SuggestionsMarker(ls) ==
  Min({s \in 1..Len(ls) : SuggestionsAt(ls, s)} \cup {Len(ls) + 1})

\* ParsedSuggestions without the try/catch: a span that is not JSON leaves
\* the parser with the error
ParsedSuggestions_throws(ls, none) ==
  LET s == SuggestionsMarker(ls)
      t == NextNonBlank(ls, s + 1)
  IN IF s > Len(ls) THEN none
     ELSE IF BraceClose(ls, t) = t /\ ls[t].kind = "json" THEN Value(JsonGroup)
     ELSE [is |-> "error", v |-> NoGroup]

\* JSON.parse(suggestionsMatch[1]) inside try/catch: the group, or `none`
\* when nothing matched or the span is not JSON
ParsedSuggestions(ls, none) ==
  LET s == SuggestionsMarker(ls)
      t == NextNonBlank(ls, s + 1)
  IN IF s > Len(ls) THEN none
     ELSE IF BraceClose(ls, t) = t /\ ls[t].kind = "json" THEN Value(JsonGroup)
     ELSE none

\* RemoveOptions taking out the marker alone: the lines after it stay
RemoveOptions_markerOnly(ls) ==
  LET i == OptionsMarker(ls)
  IN IF i > Len(ls) THEN ls
     ELSE SubLines(ls, 1, i - 1) \o <<Blank>> \o SubLines(ls, i + 1, Len(ls))

\* .replace(/OPTIONS:\s*\n[\s\S]*?(?=\n\n|SUGGESTIONS:|$)/, ''): what is left
\* of the marker's line is empty; a SUGGESTIONS: marker that ended the span
\* moves up onto it
RemoveOptions(ls) ==
  LET i == OptionsMarker(ls)
      j == NextNonBlank(ls, i + 1)
      e == CaptureEnd(ls, j)
  IN IF i > Len(ls) THEN ls
     ELSE IF e < Len(ls) /\ ls[e + 1].kind = "suggestions"
     THEN SubLines(ls, 1, i - 1) \o SubLines(ls, e + 1, Len(ls))
     ELSE SubLines(ls, 1, i - 1) \o <<Blank>> \o SubLines(ls, e + 1, Len(ls))

\* .replace(/SUGGESTIONS:\s*\n{[\s\S]*?}\s*(?:\n\n|$)/, ''): the span goes
\* with the blank lines after it
RemoveSuggestions(ls) ==
  LET s == SuggestionsMarker(ls)
      t == NextNonBlank(ls, s + 1)
      u == NextNonBlank(ls, BraceClose(ls, t) + 1)
  IN IF s > Len(ls) THEN ls
     ELSE IF u > Len(ls) THEN SubLines(ls, 1, s - 1) \o <<Blank>>
     ELSE SubLines(ls, 1, s - 1) \o SubLines(ls, u, Len(ls))

\* .trim()
Trim(ls) ==
  LET solid == {i \in 1..Len(ls) : ~IsBlank(ls[i])}
  IN IF solid = {} THEN <<>> ELSE SubLines(ls, Min(solid), Max(solid))

\* cleanMessage taking the OPTIONS block out only when its list is long
\* enough to be returned
cleanMessage_keepsDiscarded(ls) ==
  IF Len(OptionTexts(ls)) >= 4
  THEN Trim(RemoveSuggestions(RemoveOptions(ls)))
  ELSE Trim(RemoveSuggestions(ls))

cleanMessage(ls) == Trim(RemoveSuggestions(RemoveOptions(ls)))

\* the smallest list each call site returns
ClientMinOptions == 6
EdgeMinOptions == 4

\* ReturnedOptions returning any list that is not empty
ReturnedOptions_partial(ls, min) ==
  IF Len(OptionTexts(ls)) >= 1 THEN Value(OptionTexts(ls))
  ELSE Undefined(<<>>)

\* options.length >= min ? options : undefined
ReturnedOptions(ls, min) ==
  IF Len(OptionTexts(ls)) >= min THEN Value(OptionTexts(ls))
  ELSE Undefined(<<>>)

\* src/lib/chatApi parseResponse: let suggestions = undefined
parseResponse(rawText) ==
  [site |-> "client",
   message |-> cleanMessage(rawText),
   options |-> ReturnedOptions(rawText, ClientMinOptions),
   suggestions |-> ParsedSuggestions(rawText, Undefined(NoGroup))]

\* the edge functions chat-voice and chat-text: let suggestions = null
serve(assistantMessage) ==
  [site |-> "edge",
   message |-> cleanMessage(assistantMessage),
   options |-> ReturnedOptions(assistantMessage, EdgeMinOptions),
   suggestions |-> ParsedSuggestions(assistantMessage, Null(NoGroup))]

NoParse ==
  [site |-> "none", message |-> <<>>, options |-> Undefined(<<>>),
   suggestions |-> Undefined(NoGroup)]

\* ------------------------------------------------------------------- state
VARIABLES
  nodes,        \* the nodes table of the project: id -> row
  edges,        \* the edges table of the project: set of rows
  nextId,       \* the next node id the store hands out
  proc,         \* per process: the position and locals of its invocation
  runs,         \* invocations started so far
  faults,       \* store calls failed so far for an outside reason
  lookupFault,  \* TRUE once a store lookup (select) has failed
  rawResponse,  \* the assistant text received so far, line by line
  parsed,       \* what the Protocol Parser returned for it
  ui,           \* handleCreateNode: its position and arguments
  canvas        \* the nodes and edges of the React Flow state

vars == <<nodes, edges, nextId, proc, runs, faults, lookupFault,
          rawResponse, parsed, ui, canvas>>

\* the invocations of processSuggestions that may be under way: each call of
\* handleSendMessage starts its own, behind a timer
Procs == DOMAIN proc

\* what the graph synchronisation reads and writes
storeVars == <<nodes, edges, nextId, proc, runs, faults, lookupFault>>

\* what the chat side reads and writes
chatVars == <<rawResponse, parsed>>

\* what the canvas reads and writes besides the store
canvasVars == <<ui, canvas>>

RootRow ==
  [cat |-> "root", parent |-> NoNode, title |-> "Project",
   pos |-> [x |-> 0, y |-> 0], meta |-> EmptyMeta]

\* A Tech Stack node as handleCreateNode makes it from the root's bottom
\* handle: titled "New Tech Stack", metadata left to the column default {}.
UiTechRow ==
  [cat |-> "tech_stack", parent |-> RootId, title |-> "New Tech Stack",
   pos |-> [x |-> 0, y |-> 350], meta |-> EmptyMeta]

UiTechEdge ==
  [source |-> RootId, target |-> 2, sourceHandle |-> "bottom",
   targetHandle |-> "top", type |-> "parent_child"]

\* A Database node as the Add Database modal makes it under that Tech Stack
\* node: titled with the entity name, the form's fields as metadata, and an
\* edge without handles.
ModalDbRow ==
  [cat |-> "database", parent |-> 2, title |-> "A",
   pos |-> [x |-> 0, y |-> 500],
   meta |-> [entity_name |-> "A", description |-> "manual",
             security_model |-> "rls", notes |-> "keep"]]

ModalDbEdge ==
  [source |-> 2, target |-> 3, sourceHandle |-> "none",
   targetHandle |-> "none", type |-> "parent_child"]

NoStart ==
  [nextId |-> 0, edgeCount |-> 0, fresh |-> FALSE, lists |-> [n \in {} |-> <<>>]]

IdleProc ==
  [pc |-> "idle", group |-> NoGroup, categoryName |-> "", idx |-> 0,
   nodeId |-> NoNode, rootId |-> NoNode, count |-> 0, newId |-> NoNode,
   snap |-> EmptyMeta, calls |-> 0, outcome |-> "none", attempted |-> {},
   toasts |-> {}, fault |-> FALSE, made |-> {}, start |-> NoStart,
   isNew |-> FALSE]

\* handleCreateNode when no call of it is under way; what its last call did
\* stays on record
IdleUi ==
  [pc |-> "idle", parentNodeId |-> NoNode, categoryId |-> "", position |-> "",
   newId |-> NoNode, offline |-> FALSE, edgeFailed |-> FALSE, toast |-> "",
   clicks |-> 0]

\* the canvas before the project is loaded into it
NoCanvas == [nodes |-> {}, edges |-> {}]

\* The project as an invocation may find it: without its root (root creation
\* failed in NewProjectDialog), with the root only, or with nodes made
\* through the canvas UI.
Init ==
  /\ \/ nodes = [n \in {} |-> RootRow] /\ edges = {}
     \/ nodes = (RootId :> RootRow) /\ edges = {}
     \/ /\ nodes = (RootId :> RootRow) @@ (2 :> UiTechRow) @@ (3 :> ModalDbRow)
        /\ edges = {UiTechEdge, ModalDbEdge}
  /\ nextId = 4
  /\ proc = [p \in {1} |-> IdleProc]
  /\ runs = 0
  /\ faults = 0
  /\ lookupFault = FALSE
  /\ rawResponse = <<>>
  /\ parsed = NoParse
  /\ ui = IdleUi
  /\ canvas = NoCanvas

\* ------------------------------------------------------------ store access
Ids == DOMAIN nodes

\* A store call either succeeds or fails for an outside reason.
CanFail == faults < MaxFaults

\* rows matching .is('parent_node_id', null)
Roots == {n \in Ids : nodes[n].parent = NoNode}

\* rows matching .eq('category_id', ...) [.eq('title', ...)]
ByCategory(cat) == {n \in Ids : nodes[n].cat = cat}
ByCategoryTitle(cat, title) == {n \in ByCategory(cat) : nodes[n].title = title}

\* TitleTaken for a nodes table without nodes_unique_title_per_parent
TitleTaken_unconstrained(parent, title) == FALSE

\* nodes_unique_title_per_parent: UNIQUE (project_id, parent_node_id, title)
TitleTaken(parent, title) ==
  \E n \in Ids : nodes[n].parent = parent /\ nodes[n].title = title

\* edges_no_self_loop and edges_unique_connection
EdgeRejected(e) ==
  \/ e.source = e.target
  \/ \E f \in edges : f.source = e.source /\ f.target = e.target /\ f.type = e.type

\* ----------------------------------------------------- metadata merging
\* f.id || 0
IdOrZero(f) == IF "id" \in DOMAIN f THEN f.id ELSE 0

\* updatedMetadata.features || []
ListOf(meta, key) == IF key \in DOMAIN meta THEN meta[key] ELSE <<>>

\* NewId without the increment
NewId_noIncrement(list) == Max({IdOrZero(list[i]) : i \in 1..Len(list)} \cup {0})

\* Math.max(...list.map(f => f.id || 0), 0) + 1
NewId(list) == Max({IdOrZero(list[i]) : i \in 1..Len(list)} \cup {0}) + 1

\* { id: newId, title|name: ..., description: ..., ...(suggestion.metadata || {}) }
NewEntry(list, titleKey, suggestion) ==
  suggestion.metadata
    @@ ("id" :> NewId(list))
    @@ (titleKey :> suggestion.title)
    @@ ("description" :> suggestion.description)

\* { ...updatedMetadata, entity_name|flow_name: ..., description: ..., ...metadata }
MergeFlat(meta, nameKey, suggestion) ==
  suggestion.metadata
    @@ (nameKey :> suggestion.title)
    @@ ("description" :> suggestion.description)
    @@ meta

\* updatedMetadata leaving the list alone when it holds the title already
updatedMetadata_dedupes(meta, categoryName, suggestion) ==
  CASE categoryName = "Features" ->
         IF \E i \in 1..Len(ListOf(meta, "features")) :
              ListOf(meta, "features")[i].title = suggestion.title
         THEN meta
         ELSE ("features" :> Append(ListOf(meta, "features"),
                                    NewEntry(ListOf(meta, "features"), "title", suggestion)))
                @@ meta
    [] categoryName = "Tech Stack" ->
         IF \E i \in 1..Len(ListOf(meta, "techStack")) :
              ListOf(meta, "techStack")[i].name = suggestion.title
         THEN meta
         ELSE ("techStack" :> Append(ListOf(meta, "techStack"),
                                     NewEntry(ListOf(meta, "techStack"), "name", suggestion)))
                @@ meta
    [] categoryName = "Database" -> MergeFlat(meta, "entity_name", suggestion)
    [] categoryName = "User Flows" -> MergeFlat(meta, "flow_name", suggestion)
    [] OTHER -> meta

\* addSuggestionToNode: the metadata written back for a node read as `meta`
updatedMetadata(meta, categoryName, suggestion) ==
  CASE categoryName = "Features" ->
         ("features" :> Append(ListOf(meta, "features"),
                               NewEntry(ListOf(meta, "features"), "title", suggestion)))
           @@ meta
    [] categoryName = "Tech Stack" ->
         ("techStack" :> Append(ListOf(meta, "techStack"),
                                NewEntry(ListOf(meta, "techStack"), "name", suggestion)))
           @@ meta
    [] categoryName = "Database" -> MergeFlat(meta, "entity_name", suggestion)
    [] categoryName = "User Flows" -> MergeFlat(meta, "flow_name", suggestion)
    [] OTHER -> meta

\* processSuggestions: the title and metadata it passes to autoCreateNode
CallTitle(r) ==
  IF IsSingleton(r.categoryName) THEN r.categoryName
  ELSE r.group.items[r.idx].title

CallMetadata(r) ==
  CASE r.categoryName = "Features" -> ("features" :> <<>>)
    [] r.categoryName = "Tech Stack" -> ("techStack" :> <<>>)
    [] OTHER ->
         LET item == r.group.items[r.idx]
         IN item.metadata
              @@ ((IF r.categoryName = "Database" THEN "entity_name" ELSE "flow_name")
                    :> item.title)
              @@ ("description" :> item.description)

\* ------------------------------------------- control flow of an invocation
Toast(r, kind) == [r EXCEPT !.toasts = @ \cup {<<r.idx, kind>>}]
Faulted(r) == [r EXCEPT !.fault = TRUE]

\* onNodesUpdated() and the normal end of processSuggestions
Finish(r) == [r EXCEPT !.pc = "done", !.calls = @ + 1, !.outcome = "resolved"]

\* NextMultiItem stepping over every other item
NextMultiItem_skips(r) ==
  IF r.idx + 1 < Len(r.group.items)
  THEN [r EXCEPT !.idx = @ + 2, !.pc = "chkCategory",
                 !.attempted = @ \cup {r.idx + 2}]
  ELSE IF r.idx < Len(r.group.items)
  THEN [r EXCEPT !.idx = @ + 1, !.pc = "chkCategory",
                 !.attempted = @ \cup {r.idx + 1}]
  ELSE Finish(r)

\* the multi-instance loop moves on to the next item, or ends
NextMultiItem(r) ==
  IF r.idx < Len(r.group.items)
  THEN [r EXCEPT !.idx = @ + 1, !.pc = "chkCategory",
                 !.attempted = @ \cup {r.idx + 1}]
  ELSE Finish(r)

\* the singleton loop calls addSuggestionToNode for the next item, or ends
NextSingletonItem(r) ==
  IF r.idx < Len(r.group.items)
  THEN [r EXCEPT !.idx = @ + 1, !.pc = "fetchMeta",
                 !.attempted = @ \cup {r.idx + 1}]
  ELSE Finish(r)

\* autoCreateNode returned { nodeId, isNew }
AcnReturn(r, nodeId) ==
  IF IsSingleton(r.categoryName)
  THEN NextSingletonItem([r EXCEPT !.nodeId = nodeId])
  ELSE NextMultiItem([r EXCEPT !.nodeId = nodeId])

\* AcnThrow without the try/catch around the singleton call and inside the
\* multi-instance loop: the error leaves processSuggestions
AcnThrow_uncaught(r) ==
  [Toast(r, "create_failed") EXCEPT !.pc = "done", !.outcome = "rejected"]

\* autoCreateNode threw: its catch toasts and rethrows; the singleton branch
\* toasts again and leaves the loop unentered, the multi-instance loop goes on
AcnThrow(r) ==
  IF IsSingleton(r.categoryName)
  THEN Finish(Toast(Toast(r, "create_failed"), "process_failed"))
  ELSE NextMultiItem(Toast(r, "create_failed"))

\* AddFailed with addSuggestionToNode rethrowing: the singleton loop is left
AddFailed_rethrows(r) ==
  Finish(Toast(Toast(r, "add_failed"), "process_failed"))

\* addSuggestionToNode caught its own error and returned
AddFailed(r) == NextSingletonItem(Toast(r, "add_failed"))

Set(p, r) == proc' = [proc EXCEPT ![p] = r]

\* a store call of process p fails for an outside reason
Fault(isLookup) ==
  /\ CanFail
  /\ faults' = faults + 1
  /\ lookupFault' = (lookupFault \/ isLookup)

NoFault == UNCHANGED <<faults, lookupFault>>

\* ------------------------------------------------------ processSuggestions
\* what the project looked like when the invocation began (history only)
StartOf(g) ==
  [nextId |-> nextId, edgeCount |-> Cardinality(edges),
   fresh |-> /\ Cardinality(Roots) = 1
             /\ categoryMap(g.type) # ""
             /\ ByCategory(dbCategoryName(categoryMap(g.type))) = {},
   lists |-> IF IsSingleton(categoryMap(g.type))
             THEN [n \in ByCategory(dbCategoryName(categoryMap(g.type))) |->
                     nodes[n].meta]
             ELSE [n \in {} |-> <<>>]]

Start(p, g) ==
  /\ proc[p].pc \in {"idle", "done"}
  /\ runs < MaxRuns
  /\ runs' = runs + 1
  /\ LET r == [IdleProc EXCEPT !.group = g, !.outcome = "pending",
                               !.categoryName = categoryMap(g.type),
                               !.start = StartOf(g)]
     IN Set(p,
          IF ~g.hasItems
          THEN \* suggestions.items.length throws; the outer catch toasts
               [Toast(r, "processing_error") EXCEPT !.pc = "done", !.outcome = "resolved"]
          ELSE IF r.categoryName = ""
          THEN [Toast(r, "invalid_type") EXCEPT !.pc = "done", !.outcome = "resolved"]
          ELSE IF IsSingleton(r.categoryName)
          THEN [r EXCEPT !.pc = "chkCategory"]
          ELSE NextMultiItem(r))
  /\ UNCHANGED <<nodes, edges, nextId, faults, lookupFault>>
  /\ UNCHANGED <<chatVars, canvasVars>>

\* ---------------------------------------------------------- autoCreateNode
\* check*NodeExists, first await: the node_categories lookup.  Its error is
\* dropped: no data means { exists: false }.
ChkCategory(p) ==
  LET r == proc[p] IN
  /\ r.pc = "chkCategory"
  /\ \/ NoFault /\ Set(p, [r EXCEPT !.pc = "chkNodes"])
     \/ Fault(TRUE) /\ Set(p, [Faulted(r) EXCEPT !.pc = "getCategory"])
  /\ UNCHANGED <<nodes, edges, nextId, runs>>
  /\ UNCHANGED <<chatVars, canvasVars>>

\* Existing with the singleton query matching on the title as well
Existing_singletonByTitle(r) ==
  IF IsSingleton(r.categoryName)
  THEN ByCategoryTitle(singletonDbName(r.categoryName), r.categoryName)
  ELSE ByCategoryTitle(multiDbName(r.categoryName), CallTitle(r))

\* Existing with the multi-instance query matching on the category name
\* instead of the item title
Existing_multiByCategoryName(r) ==
  IF IsSingleton(r.categoryName)
  THEN ByCategory(singletonDbName(r.categoryName))
  ELSE ByCategoryTitle(multiDbName(r.categoryName), r.categoryName)

\* the rows the existence query of the call can return
Existing(r) ==
  IF IsSingleton(r.categoryName)
  THEN ByCategory(singletonDbName(r.categoryName))
  ELSE ByCategoryTitle(multiDbName(r.categoryName), CallTitle(r))

\* ChkNodes bringing the node it found back to the place a new node would get
ChkNodes_replaces(p) ==
  LET r == proc[p] IN
  /\ r.pc = "chkNodes"
  /\ \/ /\ NoFault
        /\ IF Existing(r) # {}
           THEN \E n \in Existing(r) :
                  /\ Set(p, AcnReturn([r EXCEPT !.isNew = FALSE], n))
                  /\ nodes' = [nodes EXCEPT ![n].pos =
                                 calculateNodePosition([x |-> 0, y |-> 0], 1)]
           ELSE Set(p, [r EXCEPT !.pc = "getCategory"]) /\ UNCHANGED nodes
     \/ Fault(TRUE) /\ Set(p, [Faulted(r) EXCEPT !.pc = "getCategory"])
                   /\ UNCHANGED nodes
  /\ UNCHANGED <<edges, nextId, runs>>
  /\ UNCHANGED <<chatVars, canvasVars>>

\* check*NodeExists, second await: the nodes lookup with .limit(1).  A row
\* found ends autoCreateNode with { nodeId, isNew: false }.
ChkNodes(p) ==
  LET r == proc[p] IN
  /\ r.pc = "chkNodes"
  /\ \/ /\ NoFault
        /\ IF Existing(r) # {}
           THEN \E n \in Existing(r) : 
                  Set(p, AcnReturn([r EXCEPT !.isNew = FALSE], n))
           ELSE Set(p, [r EXCEPT !.pc = "getCategory"])
     \/ Fault(TRUE) /\ Set(p, [Faulted(r) EXCEPT !.pc = "getCategory"])
  /\ UNCHANGED <<nodes, edges, nextId, runs>>
  /\ UNCHANGED <<chatVars, canvasVars>>

\* autoCreateNode: the node_categories lookup; no data throws
GetCategory(p) ==
  LET r == proc[p] IN
  /\ r.pc = "getCategory"
  /\ \/ NoFault /\ Set(p, [r EXCEPT !.pc = "getRoot"])
     \/ Fault(TRUE) /\ Set(p, AcnThrow(Faulted(r)))
  /\ UNCHANGED <<nodes, edges, nextId, runs>>
  /\ UNCHANGED <<chatVars, canvasVars>>

\* GetRoot with getRootNode returning no row instead of throwing
GetRoot_continues(p) ==
  LET r == proc[p] IN
  /\ r.pc = "getRoot"
  /\ \/ /\ NoFault
        /\ IF Cardinality(Roots) = 1
           THEN \E n \in Roots : Set(p, [r EXCEPT !.rootId = n, !.pc = "countSame"])
           ELSE Set(p, [Toast(Faulted(r), "root_missing") EXCEPT !.pc = "countSame"])
     \/ Fault(TRUE) /\ Set(p, AcnThrow(Toast(Faulted(r), "root_missing")))
  /\ UNCHANGED <<nodes, edges, nextId, runs>>
  /\ UNCHANGED <<chatVars, canvasVars>>

\* getRootNode: .is('parent_node_id', null).single(); an error or no row
\* toasts and throws
GetRoot(p) ==
  LET r == proc[p] IN
  /\ r.pc = "getRoot"
  /\ \/ /\ NoFault
        /\ IF Cardinality(Roots) = 1
           THEN \E n \in Roots : Set(p, [r EXCEPT !.rootId = n, !.pc = "countSame"])
           ELSE Set(p, AcnThrow(Toast(Faulted(r), "root_missing")))
     \/ Fault(TRUE) /\ Set(p, AcnThrow(Toast(Faulted(r), "root_missing")))
  /\ UNCHANGED <<nodes, edges, nextId, runs>>
  /\ UNCHANGED <<chatVars, canvasVars>>

\* the count of same-category children: read, and its value never used
CountSame(p) ==
  LET r == proc[p] IN
  /\ r.pc = "countSame"
  /\ \/ NoFault /\ Set(p, [r EXCEPT !.pc = "countAll"])
     \/ Fault(TRUE) /\ Set(p, [Faulted(r) EXCEPT !.pc = "countAll"])
  /\ UNCHANGED <<nodes, edges, nextId, runs>>
  /\ UNCHANGED <<chatVars, canvasVars>>

Children(parent) == {n \in Ids : nodes[n].parent = parent}

\* the count of all children of the root: existingNodes?.length || 0
CountAll(p) ==
  LET r == proc[p] IN
  /\ r.pc = "countAll"
  /\ \/ /\ NoFault
        /\ Set(p, [r EXCEPT !.count = Cardinality(Children(r.rootId)),
                            !.pc = "insertNode"])
     \/ /\ Fault(TRUE)
        /\ Set(p, [Faulted(r) EXCEPT !.count = 0, !.pc = "insertNode"])
  /\ UNCHANGED <<nodes, edges, nextId, runs>>
  /\ UNCHANGED <<chatVars, canvasVars>>

\* NewRow titled with the category name whatever the item
NewRow_categoryTitle(r) ==
  [cat |-> dbCategoryName(r.categoryName), parent |-> r.rootId,
   title |-> r.categoryName,
   pos |-> calculateNodePosition(nodes[r.rootId].pos, r.count),
   meta |-> CallMetadata(r)]

\* the row autoCreateNode inserts
NewRow(r) ==
  [cat |-> dbCategoryName(r.categoryName), parent |-> r.rootId,
   title |-> CallTitle(r),
   pos |-> calculateNodePosition(nodes[r.rootId].pos, r.count),
   meta |-> CallMetadata(r)]

\* insert into nodes: rejected by the store's constraints, or failing for an
\* outside reason, it throws
InsertNode(p) ==
  LET r == proc[p] IN
  /\ r.pc = "insertNode"
  /\ \/ /\ r.rootId \in Ids /\ ~TitleTaken(r.rootId, CallTitle(r))
        /\ NoFault
        /\ nodes' = nodes @@ (nextId :> NewRow(r))
        /\ nextId' = nextId + 1
        /\ Set(p, [r EXCEPT !.newId = nextId, !.made = @ \cup {nextId},
                            !.pc = "insertEdge"])
     \/ /\ r.rootId \notin Ids \/ TitleTaken(r.rootId, CallTitle(r))
        /\ NoFault
        /\ Set(p, AcnThrow(Faulted(r)))
        /\ UNCHANGED <<nodes, nextId>>
     \/ /\ Fault(FALSE)
        /\ Set(p, AcnThrow(Faulted(r)))
        /\ UNCHANGED <<nodes, nextId>>
  /\ UNCHANGED <<edges, runs>>
  /\ UNCHANGED <<chatVars, canvasVars>>

\* the edge autoCreateNode inserts from the root to the new node
NewEdge(r) ==
  [source |-> r.rootId, target |-> r.newId,
   sourceHandle |-> rootSourceHandleMap(r.categoryName),
   targetHandle |-> childTargetHandleMap(r.categoryName),
   type |-> "parent_child"]

EdgeInsertable(e) ==
  e.source \in Ids /\ e.target \in Ids /\ ~EdgeRejected(e)

\* InsertEdge connecting the new node to itself in an edges table that has
\* neither edges_no_self_loop nor edges_unique_connection
InsertEdge_unconstrained(p) ==
  LET r == proc[p] IN
  /\ r.pc = "insertEdge"
  /\ \/ /\ NoFault
        /\ edges' = edges \cup {[NewEdge(r) EXCEPT !.source = r.newId]}
        /\ Set(p, AcnReturn([r EXCEPT !.isNew = TRUE], r.newId))
     \/ /\ Fault(FALSE)
        /\ Set(p, AcnThrow(Faulted(r)))
        /\ UNCHANGED edges
  /\ UNCHANGED <<nodes, nextId, runs>>
  /\ UNCHANGED <<chatVars, canvasVars>>

\* insert into edges: on any error autoCreateNode throws, the node stays
InsertEdge(p) ==
  LET r == proc[p] IN
  /\ r.pc = "insertEdge"
  /\ \/ /\ EdgeInsertable(NewEdge(r))
        /\ NoFault
        /\ edges' = edges \cup {NewEdge(r)}
        /\ Set(p, AcnReturn([r EXCEPT !.isNew = TRUE], r.newId))
     \/ /\ ~EdgeInsertable(NewEdge(r))
        /\ NoFault
        /\ Set(p, AcnThrow(Faulted(r)))
        /\ UNCHANGED edges
     \/ /\ Fault(FALSE)
        /\ Set(p, AcnThrow(Faulted(r)))
        /\ UNCHANGED edges
     \/ \* the request reaches the store twice: the row is written, the
        \* replay is refused by edges_unique_connection and that error (23505)
        \* is what the client gets; it throws as on any other edgeError
        /\ EdgeInsertable(NewEdge(r))
        /\ Fault(FALSE)
        /\ edges' = edges \cup {NewEdge(r)}
        /\ Set(p, AcnThrow(Faulted(r)))
  /\ UNCHANGED <<nodes, nextId, runs>>
  /\ UNCHANGED <<chatVars, canvasVars>>

\* ----------------------------------------------------- addSuggestionToNode
\* FetchMeta letting the error of a failed read leave addSuggestionToNode
FetchMeta_rethrows(p) ==
  LET r == proc[p] IN
  /\ r.pc = "fetchMeta"
  /\ \/ /\ NoFault
        /\ IF r.nodeId \in Ids
           THEN Set(p, [r EXCEPT !.snap = nodes[r.nodeId].meta, !.pc = "updateMeta"])
           ELSE Set(p, AddFailed_rethrows(Faulted(r)))
     \/ Fault(TRUE) /\ Set(p, AddFailed_rethrows(Faulted(r)))
  /\ UNCHANGED <<nodes, edges, nextId, runs>>
  /\ UNCHANGED <<chatVars, canvasVars>>

\* select metadata, title ... .single(); an error or no row is caught
FetchMeta(p) ==
  LET r == proc[p] IN
  /\ r.pc = "fetchMeta"
  /\ \/ /\ NoFault
        /\ IF r.nodeId \in Ids
           THEN Set(p, [r EXCEPT !.snap = nodes[r.nodeId].meta, !.pc = "updateMeta"])
           ELSE Set(p, AddFailed(Faulted(r)))
     \/ Fault(TRUE) /\ Set(p, AddFailed(Faulted(r)))
  /\ UNCHANGED <<nodes, edges, nextId, runs>>
  /\ UNCHANGED <<chatVars, canvasVars>>

\* UpdateMeta computing the list from what the store holds at the write
UpdateMeta_rereads(p) ==
  LET r == proc[p]
      item == r.group.items[r.idx]
  IN
  /\ r.pc = "updateMeta"
  /\ NoFault
  /\ nodes' = IF r.nodeId \in Ids
              THEN [nodes EXCEPT ![r.nodeId].meta =
                      updatedMetadata(nodes[r.nodeId].meta, r.categoryName, item)]
              ELSE nodes
  /\ Set(p, NextSingletonItem([r EXCEPT !.snap = EmptyMeta]))
  /\ UNCHANGED <<edges, nextId, runs>>
  /\ UNCHANGED <<chatVars, canvasVars>>

\* update({ metadata: updatedMetadata }).eq('id', nodeId); an error is caught
UpdateMeta(p) ==
  LET r == proc[p]
      item == r.group.items[r.idx]
  IN
  /\ r.pc = "updateMeta"
  /\ \/ /\ NoFault
        /\ nodes' = IF r.nodeId \in Ids
                    THEN [nodes EXCEPT ![r.nodeId].meta =
                            updatedMetadata(r.snap, r.categoryName, item)]
                    ELSE nodes
        /\ Set(p, NextSingletonItem([r EXCEPT !.snap = EmptyMeta]))
     \/ /\ Fault(FALSE)
        /\ Set(p, AddFailed([Faulted(r) EXCEPT !.snap = EmptyMeta]))
        /\ UNCHANGED nodes
  /\ UNCHANGED <<edges, nextId, runs>>
  /\ UNCHANGED <<chatVars, canvasVars>>

\* ------------------------------------------------------------ specification
Next ==
  \E p \in Procs :
    \/ \E g \in Groups : Start(p, g)
    \/ ChkCategory(p)
    \/ ChkNodes(p)
    \/ GetCategory(p)
    \/ GetRoot(p)
    \/ CountSame(p)
    \/ CountAll(p)
    \/ InsertNode(p)
    \/ InsertEdge(p)
    \/ FetchMeta(p)
    \/ UpdateMeta(p)

Spec == Init /\ [][Next]_vars

\* ----------------------------------------------------------- chat exchange
\* The assistant text arrives and is parsed where the call is made: by
\* parseResponse in the client, or by the edge function before it answers.
OtherLines(ls) == {i \in 1..Len(ls) : ls[i].kind # "numbered"}

InitParse ==
  /\ nodes = (RootId :> RootRow) /\ edges = {}
  /\ nextId = 4
  /\ proc = [p \in {1} |-> IdleProc]
  /\ runs = 0
  /\ faults = 0
  /\ lookupFault = FALSE
  /\ rawResponse = <<>>
  /\ parsed = NoParse
  /\ ui = IdleUi
  /\ canvas = NoCanvas

\* the text generator writes one more line
Emit(kind) ==
  /\ parsed.site = "none"
  /\ Len(rawResponse) < MaxLines
  /\ kind # "numbered" => Cardinality(OtherLines(rawResponse)) < MaxOther
  /\ rawResponse' = Append(rawResponse, Line(kind, Len(rawResponse) + 1))
  /\ UNCHANGED parsed
  /\ UNCHANGED <<storeVars, canvasVars>>

\* sendTextMessage: parseResponse(assistantMessage)
ParseClient ==
  /\ parsed.site = "none"
  /\ parsed' = parseResponse(rawResponse)
  /\ UNCHANGED rawResponse
  /\ UNCHANGED <<storeVars, canvasVars>>

\* chat-voice, chat-text: the response is parsed before it is sent back
ParseEdge ==
  /\ parsed.site = "none"
  /\ parsed' = serve(rawResponse)
  /\ UNCHANGED rawResponse
  /\ UNCHANGED <<storeVars, canvasVars>>

NextParse ==
  \/ \E kind \in LineKinds : Emit(kind)
  \/ ParseClient
  \/ ParseEdge

SpecParse == InitParse /\ [][NextParse]_vars

\* ------------------------------------------------- overlapping invocations
\* Two assistant messages with suggestions arrive close together: the timer
\* of each starts processSuggestions, and nothing keeps the second from
\* starting while the first awaits the store.
InitConc ==
  /\ nodes = (RootId :> RootRow) /\ edges = {}
  /\ nextId = 4
  /\ proc = [p \in {1, 2} |-> IdleProc]
  /\ runs = 0
  /\ faults = 0
  /\ lookupFault = FALSE
  /\ rawResponse = <<>>
  /\ parsed = NoParse
  /\ ui = IdleUi
  /\ canvas = NoCanvas

\* the groups of the singleton categories
SingletonGroups ==
  {g \in Groups : g.hasItems /\ IsSingleton(categoryMap(g.type))}

\* each of the two messages starts one invocation
StartOnce(p, g) == proc[p].pc = "idle" /\ Start(p, g)

NextConc ==
  \E p \in Procs :
    \/ \E g \in SingletonGroups : StartOnce(p, g)
    \/ ChkCategory(p)
    \/ ChkNodes(p)
    \/ GetCategory(p)
    \/ GetRoot(p)
    \/ CountSame(p)
    \/ CountAll(p)
    \/ InsertNode(p)
    \/ InsertEdge(p)
    \/ FetchMeta(p)
    \/ UpdateMeta(p)

SpecConc == InitConc /\ [][NextConc]_vars


\* ----------------------------------------------------------- canvas editing
\* handleCreateNode of the canvas page: the user picks a category from the
\* menu of a handle; the node and the edge to it are written to the store and
\* then added to the React Flow state.
NodeCategoryIds == {"feature", "tech_stack", "database", "user_flows"}
Positions == {"top", "right", "bottom", "left"}

\* NODE_CATEGORIES[categoryId].name
CategoryName(categoryId) ==
  CASE categoryId = "feature" -> "Features"
    [] categoryId = "tech_stack" -> "Tech Stack"
    [] categoryId = "database" -> "Database"
    [] categoryId = "user_flows" -> "User Flows"

\* categoryId === "feature" ? "Features" : `New ${name}`
UiTitle(categoryId) ==
  CASE categoryId = "feature" -> "Features"
    [] categoryId = "tech_stack" -> "New Tech Stack"
    [] categoryId = "database" -> "New Database"
    [] categoryId = "user_flows" -> "New User Flows"

calculateChildPosition(parentPosition, direction) ==
  LET gap == 200
      nodeWidth == 350
      nodeHeight == 150
  IN CASE direction = "bottom" ->
            [x |-> parentPosition.x, y |-> parentPosition.y + nodeHeight + gap]
       [] direction = "right" ->
            [x |-> parentPosition.x + nodeWidth + gap, y |-> parentPosition.y]
       [] direction = "left" ->
            [x |-> parentPosition.x - nodeWidth - gap, y |-> parentPosition.y]
       [] direction = "top" ->
            [x |-> parentPosition.x, y |-> parentPosition.y - nodeHeight - gap]

oppositeHandle(position) ==
  CASE position = "top" -> "bottom"
    [] position = "bottom" -> "top"
    [] position = "right" -> "left"
    [] position = "left" -> "right"

\* the row handleCreateNode inserts; metadata is left to the column default
UiRow(u) ==
  [cat |-> u.categoryId, parent |-> u.parentNodeId,
   title |-> UiTitle(u.categoryId),
   pos |-> calculateChildPosition(nodes[u.parentNodeId].pos, u.position),
   meta |-> EmptyMeta]

\* the edge handleCreateNode inserts
UiEdge(u) ==
  [source |-> u.parentNodeId, target |-> u.newId,
   sourceHandle |-> u.position, targetHandle |-> oppositeHandle(u.position),
   type |-> "parent_child"]

\* the canvas as loaded from a store
Loaded == [nodes |-> DOMAIN nodes, edges |-> edges]

InitCanvas ==
  /\ \/ nodes = (RootId :> RootRow) /\ edges = {}
     \/ /\ nodes = (RootId :> RootRow) @@ (2 :> UiTechRow)
        /\ edges = {UiTechEdge}
  /\ nextId = 4
  /\ proc = [p \in {1} |-> IdleProc]
  /\ runs = 0
  /\ faults = 0
  /\ lookupFault = FALSE
  /\ rawResponse = <<>>
  /\ parsed = NoParse
  /\ ui = IdleUi
  /\ canvas = Loaded

\* the handle menus: every side of the root, the bottom of a node that is
\* neither the root nor a Features node
HasMenu(n, position) ==
  \/ nodes[n].cat = "root"
  \/ nodes[n].cat # "feature" /\ position = "bottom"

\* a menu item is clicked; getNode(parentNodeId) finds the node on the canvas
Click(parentNodeId, categoryId, position) ==
  /\ ui.pc = "idle"
  /\ ui.clicks < MaxClicks
  /\ parentNodeId \in canvas.nodes
  /\ HasMenu(parentNodeId, position)
  /\ ui' = [IdleUi EXCEPT !.pc = "category", !.parentNodeId = parentNodeId,
                          !.categoryId = categoryId, !.position = position,
                          !.clicks = ui.clicks + 1]
  /\ UNCHANGED <<storeVars, chatVars, canvas>>

UiEnd(u, toast) == ui' = [u EXCEPT !.pc = "idle", !.toast = toast]

\* the node_categories lookup: no data toasts and returns
UiCategory ==
  /\ ui.pc = "category"
  /\ \/ NoFault /\ ui' = [ui EXCEPT !.pc = "insertNode"]
     \/ Fault(TRUE) /\ UiEnd(ui, "Category not found")
  /\ UNCHANGED <<nodes, edges, nextId, proc, runs, chatVars, canvas>>

\* insert into nodes: an error toasts and returns
UiInsertNode ==
  /\ ui.pc = "insertNode"
  /\ \/ /\ ~TitleTaken(ui.parentNodeId, UiTitle(ui.categoryId))
        /\ NoFault
        /\ nodes' = nodes @@ (nextId :> UiRow(ui))
        /\ nextId' = nextId + 1
        /\ ui' = [ui EXCEPT !.newId = nextId, !.pc = "insertEdge"]
     \/ /\ TitleTaken(ui.parentNodeId, UiTitle(ui.categoryId))
        /\ NoFault
        /\ UiEnd(ui, "Failed to create node")
        /\ UNCHANGED <<nodes, nextId>>
     \/ /\ Fault(FALSE)
        /\ UiEnd(ui, "Failed to create node")
        /\ UNCHANGED <<nodes, nextId>>
  /\ UNCHANGED <<edges, proc, runs, chatVars, canvas>>

\* insert into edges.  When it answers, node and edge are added to the canvas
\* at once.  It fails for an outside reason: that call alone, or the
\* connection is lost, before the request reached the store or after.
UiInsertEdge ==
  /\ ui.pc = "insertEdge"
  /\ \/ /\ NoFault
        /\ edges' = edges \cup {UiEdge(ui)}
        /\ canvas' = [nodes |-> canvas.nodes \cup {ui.newId},
                      edges |-> canvas.edges \cup {UiEdge(ui)}]
        /\ UiEnd(ui, "node created")
     \/ /\ Fault(FALSE)
        /\ \E lost \in BOOLEAN :
             ui' = [ui EXCEPT !.pc = "rollback", !.edgeFailed = TRUE,
                              !.offline = lost]
        /\ UNCHANGED <<edges, canvas>>
     \/ /\ Fault(FALSE)
        /\ edges' = edges \cup {UiEdge(ui)}
        /\ ui' = [ui EXCEPT !.pc = "rollback", !.edgeFailed = TRUE,
                            !.offline = TRUE]
        /\ UNCHANGED canvas
  /\ UNCHANGED <<nodes, nextId, proc, runs, chatVars>>

\* the nodes table without row n, the edges table without the edges that
\* fk_edges_source_node and fk_edges_target_node delete with it
WithoutNode(n) == [m \in Ids \ {n} |-> nodes[m]]
WithoutEdgesOf(n) == {e \in edges : e.source # n /\ e.target # n}

\* Rollback: await supabase.from("nodes").delete().eq("id", newNode.id); what
\* the delete answers is not looked at, the toast follows in any case
UiRollback ==
  /\ ui.pc = "rollback"
  /\ \/ /\ ~ui.offline
        /\ NoFault
        /\ nodes' = WithoutNode(ui.newId)
        /\ edges' = WithoutEdgesOf(ui.newId)
     \/ /\ ~ui.offline
        /\ Fault(FALSE)
        /\ UNCHANGED <<nodes, edges>>
     \/ /\ ui.offline
        /\ NoFault
        /\ UNCHANGED <<nodes, edges>>
  /\ UiEnd(ui, "Failed to create connection")
  /\ UNCHANGED <<nextId, proc, runs, chatVars, canvas>>

NextCanvas ==
  \/ \E n \in Ids : \E c \in NodeCategoryIds : \E position \in Positions :
       Click(n, c, position)
  \/ UiCategory
  \/ UiInsertNode
  \/ UiInsertEdge
  \/ UiRollback

SpecCanvas == InitCanvas /\ [][NextCanvas]_vars


\* ================================================================== claims
\* no invocation is between two of its store calls
Settled == \A p \in Procs : proc[p].pc \in {"idle", "done"}

ItemCount(r) == Len(r.group.items)
AllItems(r) == 1..ItemCount(r)
Recognized(r) == r.categoryName # ""
TitlesOf(r) == {r.group.items[i].title : i \in AllItems(r)}

\* C1: with every store lookup succeeding (store writes may fail), after any
\* sequence of processSuggestions applications run to completion one after
\* another the project holds at most one node of each singleton category.
C1_SingletonAtMostOne ==
  (Settled /\ ~lookupFault) =>
    \A c \in {"feature", "tech_stack"} : Cardinality(ByCategory(c)) <= 1

\* a second application of a tech_stack group has completed on a project whose
\* Tech Stack node carries another title, after a store write failed
C1_Witness ==
  /\ Settled /\ ~lookupFault /\ runs = 2 /\ faults = 1
  /\ proc[1].group.type = "tech_stack"
  /\ proc[1].nodeId # NoNode
  /\ \E n \in ByCategory("tech_stack") : nodes[n].title # "Tech Stack"

\* C2: with every store lookup succeeding, after any sequence of applications
\* the project holds at most one node per (multi-instance category, title);
\* and a multi-instance group all of whose store calls succeeded leaves
\* exactly one node for each of its titles, also when it repeats a title or
\* is applied a second time.
C2_OnePerTitle ==
  /\ (Settled /\ ~lookupFault) =>
       \A c \in {"database", "user_flows"} :
         \A n, m \in ByCategory(c) : nodes[n].title = nodes[m].title => n = m
  /\ \A p \in Procs :
       LET r == proc[p] IN
       (/\ r.pc = "done" /\ ~lookupFault /\ ~r.fault
        /\ Recognized(r) /\ ~IsSingleton(r.categoryName)) =>
         \A t \in TitlesOf(r) :
           Cardinality(ByCategoryTitle(dbCategoryName(r.categoryName), t)) = 1

\* a database group that repeats a title has been applied as the second group
\* and its node was created once
C2_Witness ==
  /\ proc[1].pc = "done" /\ runs = 2 /\ ~proc[1].fault /\ ~lookupFault
  /\ proc[1].group.type = "database"
  /\ ItemCount(proc[1]) = 2
  /\ proc[1].group.items[1].title = proc[1].group.items[2].title
  /\ Cardinality(proc[1].made) = 1

\* C3: when the edge insert of autoCreateNode fails, the node the same call
\* created is gone from the store once the call has ended, and every other
\* node is as it was.
C3_RollbackOnEdgeFailure ==
  [][\A p \in Procs :
       (/\ proc[p].pc = "insertEdge"
        /\ proc'[p].pc # "insertEdge"
        /\ NewEdge(proc[p]) \notin edges')
       => /\ proc[p].newId \notin DOMAIN nodes'
          /\ \A n \in DOMAIN nodes \ {proc[p].newId} :
               n \in DOMAIN nodes' /\ nodes'[n] = nodes[n]]_vars

\* README, Edge Routing System: the handle pair of each category
EdgeRouting(type) ==
  CASE type = "features" -> [source |-> "right", target |-> "left"]
    [] type = "tech_stack" -> [source |-> "bottom", target |-> "top"]
    [] type = "database" -> [source |-> "left", target |-> "right"]
    [] type = "user_flows" -> [source |-> "top", target |-> "bottom"]

\* C4: every edge to a node created by an invocation for a category carries
\* that category's (sourceHandle, targetHandle) pair and type parent_child.
C4_EdgeHandles ==
  \A p \in Procs : \A e \in edges :
    e.target \in proc[p].made =>
      /\ e.sourceHandle = EdgeRouting(proc[p].group.type).source
      /\ e.targetHandle = EdgeRouting(proc[p].group.type).target
      /\ e.type = "parent_child"

\* a user_flows edge was created as the second edge of its invocation while
\* the anchor already had children of other categories
C4_Witness ==
  /\ proc[1].group.type = "user_flows"
  /\ Cardinality(proc[1].made) = 2
  /\ \A n \in proc[1].made : \E e \in edges : e.target = n
  /\ Cardinality(Children(RootId)) >= 3

\* C5: an invocation that has settled has called onComplete exactly once.
C5_OnCompleteOnce ==
  \A p \in Procs :
    /\ proc[p].calls <= 1
    /\ proc[p].pc = "done" => proc[p].calls = 1

\* C6 (as stated): processSuggestions never rejects, and when it resolves
\* every item of the group has been attempted.
C6_ResolvesAfterAllItems ==
  \A p \in Procs :
    LET r == proc[p] IN
    /\ r.outcome # "rejected"
    /\ r.pc = "done" => (r.outcome = "resolved" /\ r.attempted = AllItems(r))

\* the node of the group was resolved: always so for a multi-instance group,
\* whose items are resolved one by one
NodeResolved(r) ==
  Recognized(r) /\ (IsSingleton(r.categoryName) => r.nodeId # NoNode)

\* C6 (amended): processSuggestions never rejects and ends resolved; when it
\* resolves, every item has been attempted if the tag is a multi-instance
\* category or a singleton category whose node was found or created, and no
\* item has been attempted otherwise.
C6_ResolvesNeverRejects ==
  \A p \in Procs :
    LET r == proc[p] IN
    /\ r.outcome # "rejected"
    /\ r.pc = "done" <=> r.outcome = "resolved"
    /\ r.pc = "done" =>
         r.attempted = IF NodeResolved(r) THEN AllItems(r) ELSE {}

\* an invocation resolved after both items of a multi-instance group were
\* attempted, a store call of it having failed
C6_Witness ==
  /\ proc[1].pc = "done" /\ proc[1].outcome = "resolved"
  /\ proc[1].group.type = "user_flows"
  /\ proc[1].fault /\ proc[1].toasts # {}
  /\ proc[1].attempted = {1, 2}

\* C7 (as stated): once a group's node resolution or an item has failed, every
\* later item of the group is still attempted, for singleton categories too.
C7_FailureNeverBlocksLater ==
  \A p \in Procs :
    LET r == proc[p] IN
    r.pc = "done" =>
      \A t \in r.toasts :
        t[2] \in {"create_failed", "add_failed"} =>
          \A j \in AllItems(r) : (j > t[1] /\ j > 1) => j \in r.attempted

\* C7 (amended): the failure of an item (for a multi-instance category its
\* lookup, node creation or edge creation; for a singleton category its
\* metadata read or write) is followed at once by the attempt of the next
\* item; a failure to resolve the one node of a singleton group, which is done
\* once per group before any item, leaves every item unattempted.
C7_ItemFailureIsolated ==
  \A p \in Procs :
    LET r == proc[p] IN
    /\ \A t \in r.toasts :
         (t[1] >= 1 /\ t[1] < ItemCount(r)) => (t[1] + 1) \in r.attempted
    /\ (r.pc = "done" /\ <<0, "create_failed">> \in r.toasts) => r.attempted = {}

\* the metadata write of the first item of a features group failed and the
\* second item was attempted all the same
C7_Witness ==
  /\ proc[1].pc = "done"
  /\ proc[1].group.type = "features"
  /\ <<1, "add_failed">> \in proc[1].toasts
  /\ proc[1].attempted = {1, 2}

\* C8: every entry of a singleton list carries id = max(ids before it, 0) + 1.
C8_IdIsMaxPlusOne ==
  \A n \in Ids : \A key \in {"features", "techStack"} :
    LET list == ListOf(nodes[n].meta, key) IN
    \A i \in 1..Len(list) :
      list[i].id = Max({list[j].id : j \in 1..(i - 1)} \cup {0}) + 1

\* C9: a multi-instance group of k distinct titles, applied with every store
\* call succeeding to a project that has its anchor and no node of the
\* category, creates exactly k nodes, titled with the item titles and children
\* of the anchor, and exactly k edges, one parent_child edge from the anchor
\* to each of them.
C9_CreatesOnePerTitle ==
  \A p \in Procs :
    LET r == proc[p]
        new == {n \in Ids : n >= r.start.nextId}
    IN
    (/\ r.pc = "done" /\ ~r.fault /\ r.start.fresh
     /\ ~IsSingleton(r.categoryName)
     /\ Cardinality(TitlesOf(r)) = ItemCount(r)) =>
      /\ Cardinality(new) = ItemCount(r)
      /\ {nodes[n].title : n \in new} = TitlesOf(r)
      /\ \A n \in new : /\ nodes[n].parent \in Roots
                        /\ nodes[n].cat = r.group.type
      /\ Cardinality(edges) = r.start.edgeCount + ItemCount(r)
      /\ \A n \in new :
           Cardinality({e \in edges : e.target = n}) = 1
           /\ \E e \in edges : /\ e.target = n /\ e.source \in Roots
                               /\ e.type = "parent_child"

\* a database group with the titles A and B has been applied to a project
\* with its anchor and no database node, and made two nodes
C9_Witness ==
  /\ proc[1].pc = "done" /\ ~proc[1].fault /\ proc[1].start.fresh
  /\ proc[1].group.type = "database"
  /\ TitlesOf(proc[1]) = {"A", "B"}
  /\ Cardinality(proc[1].made) = 2

\* C10: when the node of a multi-instance item already exists, handling the
\* item creates no node and no edge and leaves the node's metadata equal to
\* the shallow merge of the item's fields into what was stored.
C10_ExistingNodeMerged ==
  [][\A p \in Procs :
       LET r == proc[p] IN
       (/\ r.pc = "chkNodes" /\ ~IsSingleton(r.categoryName)
        /\ Existing(r) # {}
        /\ proc'[p] # r /\ faults' = faults)
       => /\ edges' = edges
          /\ DOMAIN nodes' = DOMAIN nodes
          /\ \E n \in Existing(r) :
               nodes' = [nodes EXCEPT ![n].meta =
                           MergeFlat(nodes[n].meta,
                                     IF r.categoryName = "Database"
                                     THEN "entity_name" ELSE "flow_name",
                                     r.group.items[r.idx])]]_vars

\* process p gets a uniqueness conflict from the edge insert in this step: the
\* store call failed although the edge is in the store
EdgeConflictStep(p) ==
  /\ proc[p].pc = "insertEdge"
  /\ faults' = faults + 1
  /\ NewEdge(proc[p]) \in edges'

\* C11: a uniqueness conflict on edge creation counts as success: no failure
\* is reported, the node is kept, and the invocation goes on as it does after
\* the edge was created.
C11_EdgeConflictIsSuccess ==
  [][\A p \in Procs :
       EdgeConflictStep(p) =>
         /\ proc'[p].toasts = proc[p].toasts
         /\ proc[p].newId \in DOMAIN nodes'
         /\ proc'[p].nodeId = proc[p].newId]_vars

\* the positions of a process inside autoCreateNode
AcnSteps ==
  {"chkCategory", "chkNodes", "getCategory", "getRoot", "countSame",
   "countAll", "insertNode", "insertEdge"}

\* C12: when the node of the item does not exist and the project has no root,
\* the anchor lookup ends the item with a root-node-missing error, no node and
\* no edge is written, and the item is not taken up again.
C12_RootMissingFails ==
  /\ [][\A p \in Procs :
          (proc[p].pc = "getRoot" /\ Roots = {} /\ proc'[p] # proc[p]) =>
            /\ <<proc[p].idx, "root_missing">> \in proc'[p].toasts
            /\ nodes' = nodes /\ edges' = edges
            /\ \/ proc'[p].pc = "done"
               \/ proc'[p].pc = "chkCategory" /\ proc'[p].idx = proc[p].idx + 1]_vars
  /\ [](\A p \in Procs :
          proc[p].pc \in AcnSteps =>
            <<proc[p].idx, "root_missing">> \notin proc[p].toasts)

\* both items of a database group ended with the root-node-missing error on a
\* project without root, every lookup having answered
C12_Witness ==
  /\ proc[1].pc = "done" /\ Roots = {} /\ ~lookupFault
  /\ proc[1].group.type = "database"
  /\ {<<1, "root_missing">>, <<2, "root_missing">>} \subseteq proc[1].toasts
  /\ proc[1].made = {} /\ edges = {}

\* C13: no step of an invocation whose category tag is none of the four known
\* ones writes to the store: nodes, their metadata and edges, those of earlier
\* groups included, stay as they are, and the invocation is over at once.
C13_UnknownTagWritesNothing ==
  [][\A p \in Procs :
       (proc'[p] # proc[p] /\ proc'[p].group.type \notin SuggestionTypes) =>
         /\ nodes' = nodes
         /\ edges' = edges
         /\ proc'[p].pc = "done"]_vars

\* a group with an unknown tag and two items has ended, as the second group,
\* on a project in which the first group has created a node and an edge
C13_Witness ==
  /\ proc[1].pc = "done" /\ runs = 2
  /\ proc[1].group.type = "bogus" /\ ItemCount(proc[1]) = 2
  /\ proc[1].made = {} /\ proc[1].attempted = {}
  /\ \E n \in Ids : n >= 4 /\ \E e \in edges : e.target = n


\* ------------------------------------------------- claims about the parser
Parsed == parsed.site # "none"

HasSuggestionsMarker(ls) == \E i \in 1..Len(ls) : ls[i].kind = "suggestions"

\* the OPTIONS block of a text: the first OPTIONS: marker that a line follows,
\* and the lines after it (blank lines right after the marker skipped) up to
\* the next blank line, the SUGGESTIONS: marker or the end of the text
BlockLines(ls) ==
  LET markers == {i \in 1..(Len(ls) - 1) : ls[i].kind = "options"} IN
  IF markers = {} THEN {}
  ELSE LET i == Min(markers)
           after == {k \in (i + 1)..Len(ls) : ~IsBlank(ls[k])}
       IN {i} \cup
          {k \in after :
             \A m \in Min(after)..k :
               ~IsBlank(ls[m]) /\ ls[m].kind # "suggestions"}

RECURSIVE SortedSeq(_)
SortedSeq(S) ==
  IF S = {} THEN <<>> ELSE <<Min(S)>> \o SortedSeq(S \ {Min(S)})

\* the lines of a text at the given positions, in order
LinesAt(ls, at) ==
  LET keep == SortedSeq(at)
  IN [k \in 1..Len(keep) |-> ls[keep[k]]]

\* those of them that are not blank
SolidAt(ls, at) == LinesAt(ls, {i \in at : ~IsBlank(ls[i])})

Solid(ls) == SolidAt(ls, 1..Len(ls))

Trimmed(ls) == ls = <<>> \/ (~IsBlank(ls[1]) /\ ~IsBlank(ls[Len(ls)]))

\* the display message is the text without its OPTIONS block and without
\* blank lines at either end (blank lines inside it are not compared)
OnlyOptionsRemoved ==
  /\ Trimmed(parsed.message)
  /\ Solid(parsed.message)
       = SolidAt(rawResponse, (1..Len(rawResponse)) \ BlockLines(rawResponse))

\* C14 (as stated): for a text without SUGGESTIONS: marker the parser returns
\* suggestions undefined, at every call site, and a display message that is
\* the text with only the OPTIONS block removed and trimmed.
C14_NoMarkerUndefined ==
  (Parsed /\ ~HasSuggestionsMarker(rawResponse)) =>
    /\ parsed.suggestions.is = "undefined"
    /\ OnlyOptionsRemoved

\* what a call site returns when it has no suggestions
NoSuggestions(site) == IF site = "client" THEN "undefined" ELSE "null"

\* C14 (amended): for a text without SUGGESTIONS: marker the parser returns no
\* suggestions, which is undefined from the client parser and null from the
\* edge functions, and a display message that is the text with only the
\* OPTIONS block removed and trimmed.
C14_NoMarkerNoSuggestions ==
  (Parsed /\ ~HasSuggestionsMarker(rawResponse)) =>
    /\ parsed.suggestions.is = NoSuggestions(parsed.site)
    /\ OnlyOptionsRemoved

\* the client has parsed a text without SUGGESTIONS: marker that has prose
\* before and after an OPTIONS block, and the block is gone from the message
C14_Witness ==
  /\ parsed.site = "client"
  /\ ~HasSuggestionsMarker(rawResponse)
  /\ Len(rawResponse) = 5
  /\ rawResponse[1].kind = "prose" /\ rawResponse[2].kind = "options"
  /\ rawResponse[3].kind = "numbered" /\ rawResponse[4].kind = "blank"
  /\ rawResponse[5].kind = "prose"
  /\ Solid(parsed.message) = <<rawResponse[1], rawResponse[5]>>


\* the text with its "{...}" spans that are not JSON made valid JSON
Repaired(ls) ==
  [i \in 1..Len(ls) |->
     IF ls[i].kind = "badjson" THEN Line("json", ls[i].n) ELSE ls[i]]

\* the text without its SUGGESTIONS: marker lines
Unmarked(ls) == LinesAt(ls, {i \in 1..Len(ls) : ls[i].kind # "suggestions"})

\* the call site's parser applied to another text
ParseAs(site, ls) == IF site = "client" THEN parseResponse(ls) ELSE serve(ls)

\* a SUGGESTIONS: marker is followed by a "{...}" span, and no span of the
\* text is valid JSON
SpanNotJson(ls) ==
  /\ \E s \in 1..Len(ls) :
       /\ ls[s].kind = "suggestions"
       /\ NextNonBlank(ls, s + 1) <= Len(ls)
       /\ ls[NextNonBlank(ls, s + 1)].kind = "badjson"
  /\ \A i \in 1..Len(ls) : ls[i].kind # "json"

\* the message and the options are what the same text with valid JSON gives
\* (a span left in the message is read as repaired too)
SameButSuggestions ==
  /\ Repaired(parsed.message)
       = ParseAs(parsed.site, Repaired(rawResponse)).message
  /\ parsed.options = ParseAs(parsed.site, Repaired(rawResponse)).options

\* C15 (as stated): when the span after the SUGGESTIONS: marker is not valid
\* JSON the parser still returns, at every call site, with suggestions
\* undefined, as when the marker is absent, and with the display message and
\* the options it returns for the same text when the span is valid.
C15_BadJsonUndefined ==
  (Parsed /\ SpanNotJson(rawResponse)) =>
    /\ parsed.suggestions.is = "undefined"
    /\ parsed.suggestions
         = ParseAs(parsed.site, Unmarked(rawResponse)).suggestions
    /\ SameButSuggestions

\* C15 (amended): when the span after the SUGGESTIONS: marker is not valid
\* JSON the parser still returns, with no suggestions (undefined from the
\* client parser, null from the edge functions), as when the marker is
\* absent, and with the display message and the options it returns for the
\* same text when the span is valid.
C15_BadJsonNoSuggestions ==
  (Parsed /\ SpanNotJson(rawResponse)) =>
    /\ parsed.suggestions.is = NoSuggestions(parsed.site)
    /\ parsed.suggestions
         = ParseAs(parsed.site, Unmarked(rawResponse)).suggestions
    /\ SameButSuggestions

\* an edge function has parsed a text of four options and a span that is not
\* JSON: the options are returned, and block and span are gone from the
\* message, which is empty
C15_Witness ==
  /\ parsed.site = "edge"
  /\ SpanNotJson(rawResponse)
  /\ parsed.options.is = "value"
  /\ parsed.message = <<>>
  /\ ParseAs("edge", Repaired(rawResponse)).suggestions.is = "value"

\* the numbered lines of the OPTIONS block that have a text
OptionLines(ls) == {k \in BlockLines(ls) : ls[k].kind = "numbered"}

\* the minimum of the call site
MinimumOf(site) == IF site = "client" THEN 6 ELSE 4

\* C16: the options are returned exactly when the numbered lines with a text
\* in the OPTIONS block are at least 6 (client parser) or 4 (edge functions):
\* then the list holds the texts of all of them, in the order of the text and
\* without the numbering; with fewer, options is undefined.
C16_OptionsAllOrNone ==
  Parsed =>
    IF Cardinality(OptionLines(rawResponse)) >= MinimumOf(parsed.site)
    THEN parsed.options = Value(SortedSeq(OptionLines(rawResponse)))
    ELSE parsed.options.is = "undefined"

\* an edge function returned four options from a block of five numbered
\* lines, one of them without text, for which the client parser returns none
C16_Witness ==
  /\ parsed.site = "edge"
  /\ rawResponse # <<>> /\ rawResponse[1].kind = "prose"
  /\ \E k \in BlockLines(rawResponse) : rawResponse[k].kind = "numberedEmpty"
  /\ parsed.options.is = "value" /\ Len(parsed.options.v) = 4
  /\ parseResponse(rawResponse).options.is = "undefined"


\* --------------------------------------- claims about overlapping invocations
\* the invocation did not find its node and went on to insert one
TriedInsert(r) == r.made # {} \/ <<0, "create_failed">> \in r.toasts

\* both invocations were for the singleton category with display name c, on a
\* project that had its anchor and no node of the category when each began;
\* every store call answered; each looked the node up before the other's
\* insert, found none and went on to insert; both have ended
Raced(c) ==
  /\ Procs = {1, 2} /\ faults = 0
  /\ IsSingleton(c)
  /\ \A p \in Procs :
       /\ proc[p].pc = "done" /\ proc[p].categoryName = c
       /\ proc[p].start.fresh
       /\ TriedInsert(proc[p])

\* C17 (as stated): two invocations for the same singleton category whose
\* existence lookups both complete before either insert leave two nodes of
\* that category.
C17_RaceLeavesTwoNodes ==
  \A c \in {"Features", "Tech Stack"} :
    Raced(c) => Cardinality(ByCategory(dbCategoryName(c))) = 2

\* C17 (amended): they leave one node of that category: the insert that comes
\* second is refused by the store (the title under the anchor is taken), its
\* invocation reports the failure, creates nothing and attempts none of its
\* items, and the node holds the items of the other invocation only.
C17_RaceLeavesOneNode ==
  \A c \in {"Features", "Tech Stack"} :
    Raced(c) =>
      /\ Cardinality(ByCategory(dbCategoryName(c))) = 1
      /\ \E w \in Procs : \E l \in Procs \ {w} :
           /\ ByCategory(dbCategoryName(c)) = proc[w].made
           /\ proc[w].toasts = {} /\ proc[w].attempted = AllItems(proc[w])
           /\ proc[l].made = {} /\ proc[l].attempted = {}
           /\ proc[l].toasts = {<<0, "create_failed">>, <<0, "process_failed">>}
           /\ \A n \in proc[w].made :
                /\ \E e \in edges : e.target = n /\ e.source \in Roots
                /\ Len(ListOf(nodes[n].meta,
                              IF c = "Features" THEN "features" ELSE "techStack"))
                     = ItemCount(proc[w])

\* two features groups, of one and of two items, raced on a project with its
\* anchor only, and both have ended
C17_Witness ==
  /\ Raced("Features")
  /\ ItemCount(proc[1]) = 1 /\ ItemCount(proc[2]) = 2
  /\ proc[1].made = {} /\ proc[2].made # {}


\* ------------------------------------------------ claims about the canvas
\* C18: when handleCreateNode has ended after its edge insert failed, the
\* store holds neither the node it inserted nor an edge to it, and neither
\* has been added to the canvas.
C18_EdgeFailureRollsBack ==
  (ui.pc = "idle" /\ ui.edgeFailed) =>
    /\ ui.newId \notin Ids
    /\ \A e \in edges : e.target # ui.newId
    /\ ui.newId \notin canvas.nodes
    /\ \A e \in canvas.edges : e.target # ui.newId


\* ------------------------------------- claims about resolved nodes and lookups
\* autoCreateNode returns a node to process p in this step, reporting nothing
ResolvedStep(p) ==
  /\ proc[p].pc \in {"chkNodes", "insertEdge"}
  /\ proc'[p] # proc[p]
  /\ proc'[p].pc # "getCategory"
  /\ proc'[p].toasts = proc[p].toasts

\* C19: whenever a node is resolved for an item without a failure being
\* reported, found or created, the store holds a parent_child edge from the
\* anchor to that node.
C19_ResolvedNodeHasAnchorEdge ==
  [][\A p \in Procs :
       ResolvedStep(p) =>
         \E e \in edges' :
           /\ e.source \in Roots /\ e.target = proc'[p].nodeId
           /\ e.type = "parent_child"]_vars

\* C19 for the case the claim names: the node was left without edge by an
\* earlier failed edge insert, and is resolved again with every call answering
C19_OrphanGetsEdge ==
  [][\A p \in Procs :
       (/\ ResolvedStep(p) /\ faults' = faults
        /\ ~lookupFault
        /\ proc'[p].nodeId \in Ids
        /\ nodes[proc'[p].nodeId].parent \in Roots) =>
         \E e \in edges' :
           /\ e.source \in Roots /\ e.target = proc'[p].nodeId
           /\ e.type = "parent_child"]_vars


\* an existence lookup of process p fails in this step
LookupFailedStep(p) ==
  /\ proc[p].pc \in {"chkCategory", "chkNodes"}
  /\ proc'[p] # proc[p]
  /\ faults' = faults + 1

\* C20: a store failure in an existence lookup ends the item with a reported
\* failure: the call does not go on to create the node as if none existed.
C20_LookupFailurePropagates ==
  [][\A p \in Procs :
       LookupFailedStep(p) =>
         /\ proc'[p].toasts # proc[p].toasts
         /\ proc'[p].pc \notin (AcnSteps \ {"chkCategory"})]_vars


\* ------------------------------------------------ claims about the item loop
\* C21: within one invocation the items are taken up one after another in
\* list order: the item in hand changes only to the next one of the list, only
\* in a step that ends the last store call of the item before it, and the items
\* taken up so far are always the first ones of the list, none left out.
C21_ItemsInListOrder ==
  /\ [][\A p \in Procs :
          (proc'[p].idx # proc[p].idx /\ proc[p].pc \notin {"idle", "done"}) =>
            /\ proc'[p].idx = proc[p].idx + 1
            /\ proc[p].pc \in {"chkNodes", "getCategory", "getRoot",
                               "insertNode", "insertEdge", "fetchMeta",
                               "updateMeta"}
            /\ proc'[p].pc \in {"chkCategory", "fetchMeta"}]_vars
  /\ [](\A p \in Procs :
          /\ proc[p].attempted = 1..proc[p].idx
          /\ proc[p].idx <= ItemCount(proc[p]))

\* both items of a user_flows group were handled, the first creating its node
\* and edge before the second was taken up
C21_Witness ==
  /\ proc[1].pc = "done" /\ proc[1].group.type = "user_flows"
  /\ proc[1].idx = 2 /\ proc[1].attempted = {1, 2}
  /\ Cardinality(proc[1].made) = 2


\* --------------------------------------------- claims about the Metadata Merger
\* the metadata key of the list of a singleton category
ListKey(categoryName) ==
  IF categoryName = "Features" THEN "features" ELSE "techStack"

\* process p writes the metadata of its node in this step, the store answering
MergeWriteStep(p) ==
  /\ proc[p].pc = "updateMeta"
  /\ proc'[p] # proc[p]
  /\ faults' = faults
  /\ proc[p].nodeId \in Ids

\* the list of p's node in the store is no longer the one p has read
StaleRead(p) ==
  ListOf(nodes[proc[p].nodeId].meta, ListKey(proc[p].categoryName))
    # ListOf(proc[p].snap, ListKey(proc[p].categoryName))

\* C22: when a merger call writes after another call has written the same
\* node since its read, no conflict is detected: nothing is reported, and the
\* stored list becomes the list it had read with its own entry appended, so
\* what the other call appended is lost.
C22_LastWriteWins ==
  [][\A p \in Procs :
       (MergeWriteStep(p) /\ StaleRead(p)) =>
         LET key == ListKey(proc[p].categoryName)
             read == ListOf(proc[p].snap, key)
             stored == ListOf(nodes'[proc[p].nodeId].meta, key)
         IN /\ proc'[p].toasts = proc[p].toasts
            /\ Len(stored) = Len(read) + 1
            /\ \A i \in 1..Len(read) : stored[i] = read[i]
            /\ stored[Len(stored)].description
                 = proc[p].group.items[proc[p].idx].description]_vars

\* two features groups of one item each have both ended without a report on
\* the same node, every store call answering, and the node's list holds one
\* entry
C22_Witness ==
  /\ Procs = {1, 2} /\ faults = 0
  /\ \A p \in Procs :
       /\ proc[p].pc = "done" /\ proc[p].categoryName = "Features"
       /\ proc[p].toasts = {} /\ proc[p].attempted = {1}
  /\ proc[1].nodeId = proc[2].nodeId
  /\ proc[1].nodeId \in Ids
  /\ Len(ListOf(nodes[proc[1].nodeId].meta, "features")) = 1


\* ---------------------------------------------- claims about the Node Resolver
\* the existence check of process p finds a node in this step
FoundStep(p) ==
  /\ proc[p].pc = "chkNodes"
  /\ Existing(proc[p]) # {}
  /\ proc'[p] # proc[p]
  /\ faults' = faults

\* C23: when the node of the call exists, resolving it writes nothing: nodes
\* (title, parent, position, metadata) and edges stay as they are, the call
\* returns that node with isNew = false and reports nothing, and it returns
\* from the existence check, before the anchor is looked up.
C23_ExistingResolvedWithoutWrite ==
  [][\A p \in Procs :
       FoundStep(p) =>
         /\ nodes' = nodes /\ edges' = edges /\ nextId' = nextId
         /\ proc'[p].nodeId \in Existing(proc[p])
         /\ ~proc'[p].isNew
         /\ proc'[p].toasts = proc[p].toasts
         /\ proc'[p].rootId = proc[p].rootId
         /\ proc'[p].pc \in {"chkCategory", "fetchMeta", "done"}]_vars

\* a database group with the one title A has ended on the project whose
\* Database node A was made through the modal: the node was found, nothing was
\* created and the anchor was never looked up
C23_Witness ==
  /\ proc[1].pc = "done" /\ proc[1].group.type = "database"
  /\ ItemCount(proc[1]) = 1 /\ proc[1].group.items[1].title = "A"
  /\ proc[1].nodeId = 3 /\ ~proc[1].isNew
  /\ proc[1].made = {} /\ proc[1].rootId = NoNode /\ proc[1].toasts = {}
  /\ nodes[3] = ModalDbRow


\* ------------------------------------------ claims about the Metadata Merger
TitleKey(categoryName) == IF categoryName = "Features" THEN "title" ELSE "name"

\* process p has ended a singleton group on a node, with no store call failed
\* or rejected on the way
AppliedCleanly(p) ==
  /\ proc[p].pc = "done"
  /\ IsSingleton(proc[p].categoryName)
  /\ proc[p].nodeId \in Ids
  /\ ~proc[p].fault
  /\ proc[p].toasts = {}

\* what the node process p resolved held when the invocation began; a node
\* the invocation made itself began with the metadata of its insert
MetaAtStart(p) ==
  IF proc[p].nodeId \in DOMAIN proc[p].start.lists
  THEN proc[p].start.lists[proc[p].nodeId]
  ELSE CallMetadata(proc[p])

\* C24: a singleton group of k items applied to a node whose list held n
\* entries, every store call succeeding, leaves n + k entries: the n old ones
\* as they were and in their order, then one per item in item order, whether
\* or not the title is in the list already; the other metadata keys are as
\* they were.
C24_AppendsEveryItem ==
  \A p \in Procs :
    AppliedCleanly(p) =>
      LET key == ListKey(proc[p].categoryName)
          before == MetaAtStart(p)
          after == nodes[proc[p].nodeId].meta
          old == ListOf(before, key)
          list == ListOf(after, key)
          items == proc[p].group.items
      IN /\ Len(list) = Len(old) + Len(items)
         /\ \A i \in 1..Len(old) : list[i] = old[i]
         /\ \A j \in 1..Len(items) :
              /\ list[Len(old) + j][TitleKey(proc[p].categoryName)] = items[j].title
              /\ list[Len(old) + j].description = items[j].description
         /\ DOMAIN after \ {key} = DOMAIN before \ {key}
         /\ \A other \in DOMAIN before \ {key} : after[other] = before[other]

\* the second Features group (A, B) has been applied to the node that held
\* one entry titled A: the list now holds A, A, B
C24_Witness ==
  /\ AppliedCleanly(1) /\ runs = 2
  /\ proc[1].categoryName = "Features"
  /\ Len(ListOf(MetaAtStart(1), "features")) = 1
  /\ MetaAtStart(1).features[1].title = "A"
  /\ ItemCount(proc[1]) = 2
  /\ proc[1].group.items[1].title = "A" /\ proc[1].group.items[2].title = "B"
  /\ Len(nodes[proc[1].nodeId].meta.features) = 3


AnchorCoordinates == {-300, 0, 120}

AnchorPositions == [x : AnchorCoordinates, y : AnchorCoordinates]

\* one item per call, of any category
PlacedGroups ==
  {g \in Groups : g.hasItems /\ Len(g.items) = 1 /\ categoryMap(g.type) # ""}

InitLayout ==
  /\ \E a \in AnchorPositions : nodes = (RootId :> [RootRow EXCEPT !.pos = a])
  /\ edges = {}
  /\ nextId = RootId + 1
  /\ proc = [p \in {1} |-> IdleProc]
  /\ runs = 0
  /\ faults = 0
  /\ lookupFault = FALSE
  /\ rawResponse = <<>>
  /\ parsed = NoParse
  /\ ui = IdleUi
  /\ canvas = NoCanvas

\* existingCount = n; position = calculateNodePosition(root position, n);
\* insert into nodes
Place(n, g) ==
  LET r == [IdleProc EXCEPT !.group = g, !.categoryName = categoryMap(g.type),
                            !.idx = 1, !.rootId = RootId, !.count = n,
                            !.newId = nextId, !.pc = "insertEdge"]
  IN /\ nextId <= RootId + MaxPlaced
     /\ ~TitleTaken(RootId, CallTitle(r))
     /\ nodes' = nodes @@ (nextId :> NewRow(r))
     /\ nextId' = nextId + 1
     /\ Set(1, r)
     /\ UNCHANGED <<edges, runs, faults, lookupFault>>
     /\ UNCHANGED <<chatVars, canvasVars>>

NextLayout == \E n \in 0..MaxCount, g \in PlacedGroups : Place(n, g)

SpecLayout == InitLayout /\ [][NextLayout]_vars

\* ------------------------------------------- claims about radial placement
\* a node is placed in this step
PlacedStep == nextId' = nextId + 1 /\ nextId \in DOMAIN nodes'

\* offset of node m from the root, and the square of its length
OffsetOf(row, anchor) == [x |-> row.pos.x - anchor.x, y |-> row.pos.y - anchor.y]
DistSq(d) == d.x * d.x + d.y * d.y

\* the offset points along the ray of `angle` degrees (y grows downwards)
OnRay(d, angle) ==
  CASE angle = 0 -> d.x > 0 /\ d.y = 0
    [] angle = 90 -> d.x = 0 /\ d.y > 0
    [] angle = 180 -> d.x < 0 /\ d.y = 0
    [] angle = 270 -> d.x = 0 /\ d.y < 0
    [] OTHER -> FALSE

PlacedOnRay ==
  [][PlacedStep =>
       OnRay(OffsetOf(nodes'[nextId], nodes[RootId].pos),
             (proc'[1].count * 90) % 360)]_vars

DistinctIds(list) ==
  /\ \A i \in 1..Len(list) : "id" \in DOMAIN list[i]
  /\ \A i, j \in 1..Len(list) : i # j => list[i].id # list[j].id

\* C27: a merger call for an item whose metadata has no field id, on a
\* singleton node whose list has pairwise distinct ids, leaves a list with
\* pairwise distinct ids; so the ids stay distinct along any sequence of
\* such calls run one after another.
C27_IdsStayDistinct ==
  [][\A p \in Procs :
       (/\ MergeWriteStep(p)
        /\ IsSingleton(proc[p].categoryName)
        /\ "id" \notin DOMAIN proc[p].group.items[proc[p].idx].metadata
        /\ DistinctIds(ListOf(nodes[proc[p].nodeId].meta,
                              ListKey(proc[p].categoryName))))
       => DistinctIds(ListOf(nodes'[proc[p].nodeId].meta,
                             ListKey(proc[p].categoryName)))]_vars

\* the Features list that began with the one id 5 has taken two items
\* without an id: its ids are 5, 6, 7
C27_Witness ==
  /\ proc[1].pc = "done" /\ proc[1].categoryName = "Features" /\ runs = 2
  /\ proc[1].nodeId \in Ids
  /\ ItemCount(proc[1]) = 2
  /\ \A i \in 1..2 : "id" \notin DOMAIN proc[1].group.items[i].metadata
  /\ LET list == ListOf(nodes[proc[1].nodeId].meta, "features")
     IN /\ Len(list) = 3
        /\ list[1].id = 5 /\ list[2].id = 6 /\ list[3].id = 7


\* addSuggestionToNode of process p fails in this step: its read gives no
\* row or an error, or its update is refused
MergeFailedStep(p) ==
  /\ proc'[p] # proc[p]
  /\ \/ proc[p].pc = "fetchMeta" /\ proc'[p].pc # "updateMeta"
     \/ proc[p].pc = "updateMeta" /\ faults' # faults

\* C28: when addSuggestionToNode fails to read the node or to write the
\* update, the stored metadata is what it was before the call, the failure is
\* toasted, and the call returns: the loop takes the next item, or ends as
\* after a last item that was added.
C28_MergeFailureContained ==
  [][\A p \in Procs :
       MergeFailedStep(p) =>
         /\ nodes' = nodes
         /\ proc'[p].toasts = proc[p].toasts \cup {<<proc[p].idx, "add_failed">>}
         /\ IF proc[p].idx < ItemCount(proc[p])
            THEN /\ proc'[p].pc = "fetchMeta"
                 /\ proc'[p].idx = proc[p].idx + 1
            ELSE /\ proc'[p].pc = "done"
                 /\ proc'[p].outcome = "resolved"]_vars

\* the update for the first of two Features items was refused: nothing of it
\* is stored, the second item was added after it
C28_Witness ==
  /\ proc[1].pc = "done" /\ proc[1].categoryName = "Features"
  /\ proc[1].fault /\ ~lookupFault
  /\ proc[1].toasts = {<<1, "add_failed">>}
  /\ proc[1].attempted = {1, 2}
  /\ proc[1].nodeId \in Ids
  /\ LET list == ListOf(nodes[proc[1].nodeId].meta, "features")
     IN Len(list) = 1 /\ list[1].title = proc[1].group.items[2].title


\* the root has a child of another category with the title process p is
\* about to insert
TitleHeldByOtherCategory(p) ==
  \E n \in Children(proc[p].rootId) :
    /\ nodes[n].title = CallTitle(proc[p])
    /\ nodes[n].cat # dbCategoryName(proc[p].categoryName)

\* C29: the insert for a multi-instance item whose title a child of the root
\* in another category has already creates no node and no edge; the failure
\* is toasted and the loop takes the next item of the group, or ends as usual.
C29_TitleClashAcrossCategories ==
  [][\A p \in Procs :
       (/\ proc[p].pc = "insertNode"
        /\ proc'[p] # proc[p]
        /\ ~IsSingleton(proc[p].categoryName)
        /\ TitleHeldByOtherCategory(p))
       => /\ nodes' = nodes /\ edges' = edges /\ nextId' = nextId
          /\ proc'[p].toasts = proc[p].toasts \cup {<<proc[p].idx, "create_failed">>}
          /\ proc'[p].made = proc[p].made
          /\ IF proc[p].idx < ItemCount(proc[p])
             THEN /\ proc'[p].pc = "chkCategory"
                  /\ proc'[p].idx = proc[p].idx + 1
             ELSE /\ proc'[p].pc = "done"
                  /\ proc'[p].outcome = "resolved"]_vars

\* the root has a User Flows child titled A; of the Database group (A, B) the
\* first item was refused without any store call failing, the second made
\* its node
C29_Witness ==
  /\ proc[1].pc = "done" /\ proc[1].categoryName = "Database" /\ faults = 0
  /\ ItemCount(proc[1]) = 2
  /\ proc[1].group.items[1].title = "A" /\ proc[1].group.items[2].title = "B"
  /\ proc[1].toasts = {<<1, "create_failed">>}
  /\ proc[1].attempted = {1, 2}
  /\ \E n \in Children(RootId) : nodes[n].title = "A" /\ nodes[n].cat = "user_flows"
  /\ ~\E n \in Children(RootId) : nodes[n].title = "A" /\ nodes[n].cat = "database"
  /\ \E n \in proc[1].made : nodes[n].title = "B" /\ nodes[n].cat = "database"


\* ------------------------------------------- claims about discarded options
\* the text has an OPTIONS block whose numbered lines are fewer than the
\* call site's minimum
OptionsDiscarded ==
  /\ Parsed
  /\ OptionLines(rawResponse) # {}
  /\ Cardinality(OptionLines(rawResponse)) < MinimumOf(parsed.site)

\* C30: when the options of a block are discarded for being under the
\* minimum, options is undefined and no line of the block, marker and option
\* lines alike, is a line of the display message.
C30_DiscardedOptionsRemoved ==
  OptionsDiscarded =>
    /\ parsed.options.is = "undefined"
    /\ \A k \in BlockLines(rawResponse) :
         \A i \in 1..Len(parsed.message) : parsed.message[i] # rawResponse[k]

\* the client parser got a line of prose and a block of five options: it
\* returns no options and the prose alone as the message
C30_Witness ==
  /\ OptionsDiscarded
  /\ parsed.site = "client"
  /\ Cardinality(OptionLines(rawResponse)) = 5
  /\ rawResponse[1].kind = "prose"
  /\ parsed.options.is = "undefined"
  /\ parsed.message = <<rawResponse[1]>>

====
